---- MODULE Spec2Model ----
(***************************************************************************)
(* A model of the retrieval core of the RAG chatbot: the useRAG hook       *)
(* (chunkText, calculateSimilarity, retrieveRelevantChunks, addDocument,   *)
(* deleteDocument, sendMessage) and the two components that call it        *)
(* (DocumentPanel, ChatInput).                                             *)
(*                                                                         *)
(* Strings are sequences of one-character strings.  Numbers of type        *)
(* `number` that hold a score are exact fractions [num, den]; the value    *)
(* 0/0 that JavaScript calls NaN is the fraction with den = 0.  The        *)
(* rounding of IEEE doubles is not modelled.                               *)
(***************************************************************************)
EXTENDS Integers, Sequences, FiniteSets, TLC

VARIABLES
    documents,   \* useState<Document[]>        (useRAG.ts:27)
    messages,    \* useState<ChatMessage[]>     (useRAG.ts:28)
    isLoading,   \* useState(false)             (useRAG.ts:29)
    now,         \* the reading of Date.now()
    pending,     \* the sendMessage calls suspended at `await generateResponse`
    form,        \* DocumentPanel: newDocTitle, newDocContent, isUploading
    retrieved,   \* the last call of retrieveRelevantChunks and its result
    simIn,       \* the arguments of calculateSimilarity
    simOut,      \* its result
    chunkIn,     \* the arguments of chunkText
    chunkOut,    \* its result
    deleted,     \* the deleteDocument calls made since the last addDocument
    answeredFrom \* the `documents` the sendMessage call that has just
                 \* replied was created with, while the store is as it was
                 \* at the reply

vars == <<documents, messages, isLoading, now, pending, form,
          retrieved, simIn, simOut, chunkIn, chunkOut, deleted, answeredFrom>>

\* a result that is not there yet, and one that is
Nothing == <<>>

Some(x) == <<x>>

----------------------------------------------------------------------------
(* Characters and the JavaScript string primitives the hook uses.          *)

LowerCaseLetters ==
    {"a","b","c","d","e","f","g","h","i","j","k","l","m",
     "n","o","p","q","r","s","t","u","v","w","x","y","z"}

UpperToLower ==
    [A |-> "a", B |-> "b", C |-> "c", D |-> "d", E |-> "e", F |-> "f", G |-> "g",
     H |-> "h", I |-> "i", J |-> "j", K |-> "k", L |-> "l", M |-> "m", N |-> "n",
     O |-> "o", P |-> "p", Q |-> "q", R |-> "r", S |-> "s", T |-> "t", U |-> "u",
     V |-> "v", W |-> "w", X |-> "x", Y |-> "y", Z |-> "z"]

UpperCaseLetters == DOMAIN UpperToLower

Digits == {"0","1","2","3","4","5","6","7","8","9"}

\* the class \w of a JavaScript regular expression
WordChars == LowerCaseLetters \cup UpperCaseLetters \cup Digits \cup {"_"}

IsWordChar(c) == c \in WordChars

\* the class \W
IsNonWordChar(c) == ~IsWordChar(c)

\* the class \s, which is also what String.prototype.trim removes
IsWhiteSpace(c) == c \in {" ", "\t", "\n", "\r"}

\* the class [.!?] of chunkText's sentence split
IsSentenceEnd(c) == c \in {".", "!", "?"}

\* the separator of currentChunk.split(' ')
IsBlank(c) == c = " "

\* the function f on 1..n as a sequence
AsSeq(f, n) == SubSeq(f, 1, n)

SetMin(S) == CHOOSE x \in S : \A y \in S : x <= y

\* the elements of a finite set of integers in increasing order
SortedSeq(S) ==
    AsSeq([k \in 1..Cardinality(S) |->
              CHOOSE x \in S : Cardinality({y \in S : y < x}) = k - 1], Cardinality(S))

Range(s) == {s[i] : i \in 1..Len(s)}

\* String.prototype.toLowerCase
toLowerCase(s) ==
    AsSeq([i \in 1..Len(s) |->
              IF s[i] \in UpperCaseLetters THEN UpperToLower[s[i]] ELSE s[i]], Len(s))

\* String.prototype.trim
trim(s) ==
    LET n     == Len(s)
        first == CHOOSE i \in 1..n : ~IsWhiteSpace(s[i])
        last  == CHOOSE i \in 1..n :
                     ~IsWhiteSpace(s[i]) /\ \A j \in (i + 1)..n : IsWhiteSpace(s[j])
    IN  IF \A i \in 1..n : IsWhiteSpace(s[i]) THEN <<>> ELSE SubSeq(s, first, last)

\* String.prototype.split with a regular expression [class]+ : the pieces
\* between the maximal runs of separator characters, the empty piece before a
\* leading run and after a trailing run included; sep[i] tells whether s[i]
\* is a separator character.
splitRuns(s, sep) ==
    LET n      == Len(s)
        ends   == {i \in 1..n : sep[i] /\ (i = n \/ ~sep[i + 1])}
        starts == SortedSeq({1} \cup {j + 1 : j \in ends})
        piece(p) ==
            LET stops == {q \in p..n : sep[q]}
            IN  IF stops = {} THEN SubSeq(s, p, n) ELSE SubSeq(s, p, SetMin(stops) - 1)
    IN  AsSeq([k \in 1..Len(starts) |-> piece(starts[k])], Len(starts))

\* String.prototype.split with a one-character string: a piece between every
\* two occurrences of the separator, empty pieces included.
splitChar(s, sep) ==
    LET n      == Len(s)
        starts == SortedSeq({1} \cup {j + 1 : j \in {i \in 1..n : sep[i]}})
        piece(p) ==
            LET stops == {q \in p..n : sep[q]}
            IN  IF stops = {} THEN SubSeq(s, p, n) ELSE SubSeq(s, p, SetMin(stops) - 1)
    IN  AsSeq([k \in 1..Len(starts) |-> piece(starts[k])], Len(starts))

\* Array.prototype.slice(start) for an integer start
slice(a, start) ==
    LET len == Len(a)
        k   == IF start < 0
               THEN (IF len + start > 0 THEN len + start ELSE 0)
               ELSE (IF start < len THEN start ELSE len)
    IN  SubSeq(a, k + 1, len)

\* Array.prototype.join
RECURSIVE join(_, _)
join(a, sep) ==
    IF Len(a) = 0 THEN <<>>
    ELSE IF Len(a) = 1 THEN a[1]
    ELSE a[1] \o sep \o join(Tail(a), sep)

\* String.prototype.includes
includes(s, sub) ==
    \E i \in 1..(Len(s) - Len(sub) + 1) : SubSeq(s, i, i + Len(sub) - 1) = sub

----------------------------------------------------------------------------
(* Numbers that hold a score: exact fractions, NaN = 0/0.                  *)

Frac(n, d) == [num |-> n, den |-> d]

NaN == Frac(0, 0)

IsNaN(x) == x.den = 0

\* a / b for integers 0 <= a <= b: 0 / 0 is NaN
divide(a, b) == IF b = 0 THEN NaN ELSE Frac(a, b)

\* x + y; NaN when either is NaN
plus(x, y) ==
    IF IsNaN(x) \/ IsNaN(y) THEN NaN
    ELSE Frac(x.num * y.den + y.num * x.den, x.den * y.den)

\* the comparisons of IEEE numbers: false when either side is NaN
Less(x, y) == ~IsNaN(x) /\ ~IsNaN(y) /\ x.num * y.den < y.num * x.den

Greater(x, y) == Less(y, x)

LessEq(x, y) == ~IsNaN(x) /\ ~IsNaN(y) /\ x.num * y.den <= y.num * x.den

SameNumber(x, y) == ~IsNaN(x) /\ ~IsNaN(y) /\ x.num * y.den = y.num * x.den

\* Math.min: NaN when either argument is NaN
mathMin(x, y) ==
    IF IsNaN(x) \/ IsNaN(y) THEN NaN
    ELSE IF Less(y, x) THEN y ELSE x

Zero == Frac(0, 1)

One == Frac(1, 1)

\* the increment 0.3 of phraseBoost
PhraseIncrement == Frac(3, 10)

\* the literal 0.1 of retrieveRelevantChunks
Threshold == Frac(1, 10)

----------------------------------------------------------------------------
(* chunkText                                                               *)

DefaultChunkSize == 500

DefaultOverlap == 50

HasText(s) == Len(trim(s)) > 0

\* text.split(/[.!?]+/).filter(s => s.trim().length > 0)
sentencesOf(text) == SelectSeq(splitRuns(text, [i \in 1..Len(text) |-> IsSentenceEnd(text[i])]), HasText)

\* -overlap / 10 as Array.prototype.slice reads it: truncated towards zero
sliceStart(overlap) ==
    IF overlap >= 0 THEN 0 - (overlap \div 10) ELSE (0 - overlap) \div 10

\* overlapSeed as a flush that forgets the sentence it was called for
overlapSeedWithoutSentence(currentChunk, overlap, sentence) ==
    join(slice(splitChar(currentChunk, [i \in 1..Len(currentChunk) |-> IsBlank(currentChunk[i])]), sliceStart(overlap)), <<" ">>)

\* the seed of the new buffer after a flush
overlapSeed(currentChunk, overlap, sentence) ==
    LET words == splitChar(currentChunk, [i \in 1..Len(currentChunk) |-> IsBlank(currentChunk[i])])
    IN  join(slice(words, sliceStart(overlap)), <<" ">>) \o <<" ">> \o sentence

\* the body of the for loop, from sentence i on; st = [chunks, currentChunk]
RECURSIVE chunkLoop(_, _, _, _, _)
chunkLoop(sentences, i, st, chunkSize, overlap) ==
    IF i > Len(sentences) THEN st
    ELSE
        LET sentence == sentences[i]
            cur      == st.currentChunk
            next ==
                IF Len(cur) + Len(sentence) > chunkSize /\ Len(cur) > 0
                THEN [chunks       |-> Append(st.chunks, trim(cur)),
                      currentChunk |-> overlapSeed(cur, overlap, sentence)]
                ELSE [chunks       |-> st.chunks,
                      currentChunk |-> cur \o (IF Len(cur) > 0 THEN <<".", " ">> ELSE <<>>)
                                           \o sentence]
        IN  chunkLoop(sentences, i + 1, next, chunkSize, overlap)

\* chunkText without the fallback of its last line
chunkTextWithoutFallback(text, chunkSize, overlap) ==
    LET st == chunkLoop(sentencesOf(text), 1,
                        [chunks |-> <<>>, currentChunk |-> <<>>], chunkSize, overlap)
    IN  IF HasText(st.currentChunk)
        THEN Append(st.chunks, trim(st.currentChunk))
        ELSE st.chunks

chunkText(text, chunkSize, overlap) ==
    LET st     == chunkLoop(sentencesOf(text), 1,
                            [chunks |-> <<>>, currentChunk |-> <<>>], chunkSize, overlap)
        chunks == IF HasText(st.currentChunk)
                  THEN Append(st.chunks, trim(st.currentChunk))
                  ELSE st.chunks
    IN  IF Len(chunks) > 0 THEN chunks ELSE <<text>>

----------------------------------------------------------------------------
(* calculateSimilarity                                                     *)

\* the length filter off by one
LongerThanOne(w) == Len(w) > 1

LongerThanTwo(w) == Len(w) > 2

\* s.toLowerCase().split(/\W+/).filter(w => w.length > 2)
wordsOf(s) ==
    LET lower == toLowerCase(s)
    IN  SelectSeq(splitRuns(lower, [i \in 1..Len(lower) |-> IsNonWordChar(lower[i])]), LongerThanTwo)

\* the first positions of the maximal runs of word characters, in order
wordStarts(s) ==
    SortedSeq({i \in 1..Len(s) : IsWordChar(s[i]) /\ (i = 1 \/ ~IsWordChar(s[i - 1]))})

\* the last position of the run of word characters that starts at i
wordEnd(s, i) ==
    LET stops == {q \in i..Len(s) : ~IsWordChar(s[q])}
    IN  IF stops = {} THEN Len(s) ELSE SetMin(stops) - 1

\* s.match(/\b\w+\s+\w+\b/g) || []: the matches are found left to right and
\* do not overlap, so the search goes on after the second word of a match.
RECURSIVE matchFrom(_, _, _)
matchFrom(s, starts, k) ==
    IF k >= Len(starts) THEN <<>>
    ELSE
        LET e1  == wordEnd(s, starts[k])
            s2  == starts[k + 1]
        IN  IF \A j \in (e1 + 1)..(s2 - 1) : IsWhiteSpace(s[j])
            THEN <<SubSeq(s, starts[k], wordEnd(s, s2))>> \o matchFrom(s, starts, k + 2)
            ELSE matchFrom(s, starts, k + 1)

matchPhrases(s) == matchFrom(s, wordStarts(s), 1)

calculateSimilarity(query, text) ==
    LET querySet     == Range(wordsOf(query))
        textSet      == Range(wordsOf(text))
        intersection == {w \in querySet : w \in textSet}
        union        == querySet \cup textSet
        jaccard      == divide(Cardinality(intersection), Cardinality(union))
        queryPhrases == matchPhrases(toLowerCase(query))
        hits         == {p \in 1..Len(queryPhrases) :
                            includes(toLowerCase(text), queryPhrases[p])}
        phraseBoost  == Frac(PhraseIncrement.num * Cardinality(hits), PhraseIncrement.den)
    IN  mathMin(plus(jaccard, phraseBoost), One)

----------------------------------------------------------------------------
(* retrieveRelevantChunks                                                  *)

DefaultTopK == 3

\* the threshold test with >= for >
AtOrAboveThreshold(item) == LessEq(Threshold, item.score)

Eligible(item) == Greater(item.score, Threshold)

\* the inner forEach: the chunks of one document that pass the threshold
chunksAbove(doc, query) ==
    SelectSeq([c \in 1..Len(doc.chunks) |->
                  [chunk    |-> doc.chunks[c],
                   docTitle |-> doc.title,
                   score    |-> calculateSimilarity(query, doc.chunks[c])]],
              Eligible)

\* the outer forEach: allChunks, in document order and then chunk order
RECURSIVE allChunksOf(_, _)
allChunksOf(docs, query) ==
    IF Len(docs) = 0 THEN <<>>
    ELSE chunksAbove(Head(docs), query) \o allChunksOf(Tail(docs), query)

\* the comparator (a, b) => b.score - a.score is positive: b goes before a
goesBefore(b, a) == Greater(b.score, a.score)

\* insertSorted as the step of a sort that is not stable: x goes in front of
\* the elements it ties with
insertBeforeEqual(sorted, x) ==
    LET behind == {i \in 1..Len(sorted) : ~goesBefore(sorted[i], x)}
        k      == IF behind = {} THEN Len(sorted) + 1 ELSE SetMin(behind)
    IN  SubSeq(sorted, 1, k - 1) \o <<x>> \o SubSeq(sorted, k, Len(sorted))

\* Array.prototype.sort, which is stable: x goes behind every element that
\* the comparator does not put behind it
insertSorted(sorted, x) ==
    LET behind == {i \in 1..Len(sorted) : goesBefore(x, sorted[i])}
        k      == IF behind = {} THEN Len(sorted) + 1 ELSE SetMin(behind)
    IN  SubSeq(sorted, 1, k - 1) \o <<x>> \o SubSeq(sorted, k, Len(sorted))

RECURSIVE sortFrom(_, _, _)
sortFrom(a, i, sorted) ==
    IF i > Len(a) THEN sorted ELSE sortFrom(a, i + 1, insertSorted(sorted, a[i]))

\* a sort that leaves the array as it is
unsorted(a) == a

sort(a) == sortFrom(a, 1, <<>>)

\* the .map of the last lines
toSource(item) == [title |-> item.docTitle, content |-> item.chunk, relevance |-> item.score]

\* retrieveRelevantChunks with .slice before .sort
retrieveSliceThenSort(docs, query, topK) ==
    LET all == allChunksOf(docs, query)
        top == sort(SubSeq(all, 1, IF topK < Len(all) THEN topK ELSE Len(all)))
    IN  AsSeq([i \in 1..Len(top) |-> toSource(top[i])], Len(top))

retrieveRelevantChunks(docs, query, topK) ==
    LET ranked == sort(allChunksOf(docs, query))
        top    == SubSeq(ranked, 1, IF topK < Len(ranked) THEN topK ELSE Len(ranked))
    IN  AsSeq([i \in 1..Len(top) |-> toSource(top[i])], Len(top))

----------------------------------------------------------------------------
(* addDocument, deleteDocument                                             *)

DigitOf == <<"0","1","2","3","4","5","6","7","8","9">>

\* Number.prototype.toString for a natural number
RECURSIVE toString(_)
toString(n) ==
    IF n < 10 THEN <<DigitOf[n + 1]>> ELSE toString(n \div 10) \o <<DigitOf[(n % 10) + 1]>>

addDocument(docs, title, content, clock) ==
    Append(docs, [id      |-> toString(clock),
                  title   |-> title,
                  content |-> content,
                  chunks  |-> chunkText(content, DefaultChunkSize, DefaultOverlap),
                  size    |-> Len(content)])

\* deleteDocument as a removal that, finding no document of that id, takes
\* the last one
deleteDocumentOrLast(docs, id) ==
    LET keep(doc) == doc.id # id
    IN  IF \E i \in 1..Len(docs) : docs[i].id = id
        THEN SelectSeq(docs, keep)
        ELSE SubSeq(docs, 1, Len(docs) - 1)

deleteDocument(docs, id) ==
    LET keep(doc) == doc.id # id
    IN  SelectSeq(docs, keep)

----------------------------------------------------------------------------
(* generateResponse, sendMessage                                           *)

\* the answer when there is no source, the three templates of an answer
\* (the text they quote from the sources is left out), the text of the
\* catch branch
NoInformationText == <<"I don't have enough information in the uploaded documents">>

ResponseTexts ==
    <<"Based on the documents you've uploaded",
      "According to your uploaded documents",
      "I found relevant information in your knowledge base">>

ErrorText == <<"I apologize, but I encountered an error">>

\* pick is Math.floor(Math.random() * responses.length) + 1
generateResponse(query, sources, pick) ==
    IF Len(sources) = 0 THEN NoInformationText ELSE <<ResponseTexts[pick]>>

userMessage(content, clock) ==
    [id |-> toString(clock), content |-> content, sender |-> "user",
     timestamp |-> clock, sources |-> Nothing]

assistantMessage(response, sources, clock) ==
    [id |-> toString(clock + 1), content |-> response, sender |-> "assistant",
     timestamp |-> clock,
     sources |-> IF Len(sources) > 0 THEN Some(sources) ELSE Nothing]

----------------------------------------------------------------------------
(* Input strings: every concatenation of at most n pieces.                 *)

RECURSIVE StringsOf(_, _)
StringsOf(pieces, n) ==
    IF n = 0 THEN {<<>>}
    ELSE LET shorter == StringsOf(pieces, n - 1)
         IN  shorter \cup {s \o p : s \in shorter, p \in pieces}

MaxQueryPieces == 3

MaxTextPieces == 2

MaxChunkPieces == 5

MaxChunkSize == 4

SimPieces == {<<"c","a","t">>, <<"C","a","t">>, <<"o","n">>, <<" ">>, <<",">>}

SimQueries == StringsOf(SimPieces, MaxQueryPieces)

SimTexts == StringsOf(SimPieces, MaxTextPieces)

ChunkPieces == {<<"a","b">>, <<"c">>, <<" ">>, <<".">>}

ChunkTexts == StringsOf(ChunkPieces, MaxChunkPieces)

ChunkSizes == (0..MaxChunkSize) \cup {DefaultChunkSize}

Overlaps == {0 - 10, 0, 5, 10, 20, DefaultOverlap}

MaxDocs == 2

MaxClock == 1

MaxTopK == 3

Repeat(c, n) == AsSeq([i \in 1..n |-> c], n)

\* the document and the query of the specification's scenario A
ScenarioDocument ==
    <<"T","h","e"," ","c","a","t"," ","s","a","t"," ","o","n"," ","t","h","e"," ","m","a","t","."," ","T","h","e"," ","d","o","g"," ","r","a","n"," ","f","a","s","t",".">>

ScenarioQuery ==
    <<"W","h","e","r","e"," ","d","i","d"," ","t","h","e"," ","c","a","t"," ","s","i","t","?">>

\* ten tokens, one of them "cat"
TenWordDocument ==
    <<"c","a","t"," ","o","n","e"," ","t","w","o"," ","s","i","x"," ","t","e","n"," ","r","e","d"," ","b","i","g"," ","o","l","d"," ","n","e","w"," ","h","o","t">>

\* two sentences of 260 and 262 characters: two chunks with the defaults
LongDocument ==
    <<"c","a","t"," ","s","a","t"," ","o","n"," ","a"," ","m","a","t"," ","o","f"," ">>
        \o Repeat("z", 240)
        \o <<"."," ","T","h","e"," ","d","o","g"," ","r","a","n"," ","u","p"," ","t","o"," ","a","n"," ">>
        \o Repeat("y", 240)

\* no token longer than 2 characters
ShortWordDocument == <<"o","n"," ","a">>

Titles == {<<"A">>, <<"B">>}

Contents == {ScenarioDocument, TenWordDocument, LongDocument, ShortWordDocument}

Queries == {ScenarioQuery, <<"c","a","t">>, <<"T","h","e"," ","d","o","g">>, ShortWordDocument}

TopKs == 0..MaxTopK

MaxMessages == 4

\* what the user loads into and types in DocumentPanel and ChatInput
FormTitles == {<<" ","A"," ">>, <<" ">>}

FormContents == {<<" ","c","a","t"," ","s","a","t",".">>, <<" ">>}

ChatTexts == {<<"c","a","t"," ","s","a","t"," ">>, <<"d","o","g">>, <<" ">>}

----------------------------------------------------------------------------
(* The state of the hook and of the components before the first event.     *)

InitApp ==
    /\ documents = <<>>
    /\ messages = <<>>
    /\ isLoading = FALSE
    /\ now = 0
    /\ pending = <<>>
    /\ form = [newDocTitle |-> <<>>, newDocContent |-> <<>>, isUploading |-> FALSE]
    /\ retrieved = Nothing
    /\ deleted = Nothing
    /\ answeredFrom = Nothing

appVars == <<documents, messages, isLoading, now, pending, form, retrieved,
             deleted, answeredFrom>>

----------------------------------------------------------------------------
(* calculateSimilarity as a function: the query scored against the text    *)
(* and against itself.                                                     *)

InitSim ==
    /\ InitApp
    /\ simIn \in [query : SimQueries, text : SimTexts]
    /\ simOut = [text |-> Nothing, query |-> Nothing]
    /\ chunkIn = Nothing
    /\ chunkOut = Nothing

ScoreText ==
    /\ simOut.text = Nothing
    /\ simOut' = [simOut EXCEPT !.text = Some(calculateSimilarity(simIn.query, simIn.text))]
    /\ UNCHANGED <<appVars, simIn, chunkIn, chunkOut>>

ScoreQuery ==
    /\ simOut.query = Nothing
    /\ simOut' = [simOut EXCEPT !.query = Some(calculateSimilarity(simIn.query, simIn.query))]
    /\ UNCHANGED <<appVars, simIn, chunkIn, chunkOut>>

NextSim == ScoreText \/ ScoreQuery

SpecSim == InitSim /\ [][NextSim]_vars

----------------------------------------------------------------------------
(* calculateSimilarity on queries and texts of whole words.                *)

MaxPhraseWords == 3

RECURSIVE PhrasesOf(_, _)
PhrasesOf(words, n) ==
    IF n = 1 THEN words
    ELSE LET shorter == PhrasesOf(words, n - 1)
         IN  shorter \cup {p \o <<" ">> \o w : p \in shorter, w \in words}

PhraseQueries ==
    PhrasesOf({<<"T","h","e">>, <<"c","a","t">>, <<"s","a","t">>}, MaxPhraseWords)

PhraseTexts ==
    PhrasesOf({<<"c","a","t">>, <<"s","a","t">>, <<"m","a","t">>}, MaxPhraseWords)

InitPhrase ==
    /\ InitApp
    /\ simIn \in [query : PhraseQueries, text : PhraseTexts]
    /\ simOut = [text |-> Nothing, query |-> Nothing]
    /\ chunkIn = Nothing
    /\ chunkOut = Nothing

NextPhrase == ScoreText \/ ScoreQuery

SpecPhrase == InitPhrase /\ [][NextPhrase]_vars

----------------------------------------------------------------------------
(* chunkText as a function.                                                *)

InitChunk ==
    /\ InitApp
    /\ simIn = Nothing
    /\ simOut = Nothing
    /\ chunkIn \in [text : ChunkTexts, chunkSize : ChunkSizes, overlap : Overlaps]
    /\ chunkOut = Nothing

Chunk ==
    /\ chunkOut = Nothing
    /\ chunkOut' = Some(chunkText(chunkIn.text, chunkIn.chunkSize, chunkIn.overlap))
    /\ UNCHANGED <<appVars, simIn, simOut, chunkIn>>

NextChunk == Chunk

SpecChunk == InitChunk /\ [][NextChunk]_vars

----------------------------------------------------------------------------
(* retrieveRelevantChunks as a function of the store, which the hook's     *)
(* addDocument and deleteDocument build.  The clock stands still here, and *)
(* a result is looked at before the next call and dropped when the store   *)
(* changes.                                                                *)

InitRetrieve ==
    /\ InitApp
    /\ simIn = Nothing
    /\ simOut = Nothing
    /\ chunkIn = Nothing
    /\ chunkOut = Nothing

AddDocument(title, content) ==
    /\ Len(documents) < MaxDocs
    /\ documents' = addDocument(documents, title, content, now)
    /\ retrieved' = Nothing
    /\ UNCHANGED <<messages, isLoading, now, pending, form,
                   simIn, simOut, chunkIn, chunkOut, deleted, answeredFrom>>

DeleteDocument(id) ==
    /\ documents' = deleteDocument(documents, id)
    /\ retrieved' = Nothing
    /\ UNCHANGED <<messages, isLoading, now, pending, form,
                   simIn, simOut, chunkIn, chunkOut, deleted, answeredFrom>>

Retrieve(query, topK) ==
    /\ retrieved = Nothing
    /\ retrieved' = Some([query   |-> query,
                          topK    |-> topK,
                          sources |-> retrieveRelevantChunks(documents, query, topK)])
    /\ UNCHANGED <<documents, messages, isLoading, now, pending, form,
                   simIn, simOut, chunkIn, chunkOut, deleted, answeredFrom>>

NextRetrieve ==
    \/ \E title \in Titles, content \in Contents : AddDocument(title, content)
    \/ \E clock \in 0..MaxClock : DeleteDocument(toString(clock))
    \/ \E query \in Queries, topK \in TopKs : Retrieve(query, topK)

SpecRetrieve == InitRetrieve /\ [][NextRetrieve]_vars

----------------------------------------------------------------------------
(* addDocument and deleteDocument as calls on the hook, deleteDocument     *)
(* with any id, also one that Date.now() has never returned.  Each         *)
(* deleteDocument call is written down with the store before and after it. *)

MaxDeletes == 2

StoreContents == {ScenarioDocument, ShortWordDocument}

DeleteIds == {toString(clock) : clock \in 0..(MaxClock + 1)}

InitStore ==
    /\ InitApp
    /\ simIn = Nothing
    /\ simOut = Nothing
    /\ chunkIn = Nothing
    /\ chunkOut = Nothing

AddCalled(title, content) ==
    /\ Len(documents) < MaxDocs
    /\ documents' = addDocument(documents, title, content, now)
    /\ deleted' = Nothing
    /\ UNCHANGED <<messages, isLoading, now, pending, form, retrieved,
                   simIn, simOut, chunkIn, chunkOut, answeredFrom>>

DeleteCalled(id) ==
    /\ Len(deleted) < MaxDeletes
    /\ documents' = deleteDocument(documents, id)
    /\ deleted' = Append(deleted, [id     |-> id,
                                   before |-> documents,
                                   after  |-> deleteDocument(documents, id)])
    /\ UNCHANGED <<messages, isLoading, now, pending, form, retrieved,
                   simIn, simOut, chunkIn, chunkOut, answeredFrom>>

\* Date.now() reads a later time
ClockTick ==
    /\ now < MaxClock
    /\ now' = now + 1
    /\ UNCHANGED <<documents, messages, isLoading, pending, form, retrieved,
                   simIn, simOut, chunkIn, chunkOut, deleted, answeredFrom>>

NextStore ==
    \/ ClockTick
    \/ \E title \in Titles, content \in StoreContents : AddCalled(title, content)
    \/ \E id \in DeleteIds : DeleteCalled(id)

SpecStore == InitStore /\ [][NextStore]_vars

----------------------------------------------------------------------------
(* The application: DocumentPanel and ChatInput call the hook.  React      *)
(* renders between two events, so a handler reads the state the last       *)
(* handler left.                                                           *)

pureVars == <<retrieved, simIn, simOut, chunkIn, chunkOut, deleted>>

Init ==
    /\ InitApp
    /\ simIn = Nothing
    /\ simOut = Nothing
    /\ chunkIn = Nothing
    /\ chunkOut = Nothing

\* Date.now() reads a later time
Tick ==
    /\ now < MaxClock
    /\ now' = now + 1
    /\ UNCHANGED <<documents, messages, isLoading, pending, form, answeredFrom, pureVars>>

\* DocumentPanel: reader.onload of handleFileUpload
FileLoaded(title, content) ==
    /\ form' = [newDocTitle |-> title, newDocContent |-> content, isUploading |-> TRUE]
    /\ UNCHANGED <<documents, messages, isLoading, now, pending, answeredFrom, pureVars>>

\* DocumentPanel: the Cancel button
CancelUpload ==
    /\ form.isUploading
    /\ form' = [form EXCEPT !.isUploading = FALSE]
    /\ UNCHANGED <<documents, messages, isLoading, now, pending, answeredFrom, pureVars>>

\* DocumentPanel: handleUpload, which calls addDocument
HandleUpload ==
    /\ form.isUploading
    /\ Len(trim(form.newDocTitle)) > 0
    /\ Len(trim(form.newDocContent)) > 0
    /\ Len(documents) < MaxDocs
    /\ documents' = addDocument(documents, trim(form.newDocTitle),
                                trim(form.newDocContent), now)
    /\ form' = [newDocTitle |-> <<>>, newDocContent |-> <<>>, isUploading |-> FALSE]
    /\ answeredFrom' = Nothing
    /\ UNCHANGED <<messages, isLoading, now, pending, pureVars>>

\* DocumentPanel: the delete button of the d-th document, which calls
\* deleteDocument
DeleteClicked(d) ==
    /\ documents' = deleteDocument(documents, documents[d].id)
    /\ answeredFrom' = Nothing
    /\ UNCHANGED <<messages, isLoading, now, pending, form, pureVars>>

\* sendMessage up to its await: the closure was created by the render that
\* `documents` comes from (the dependency list of useCallback)
sendMessage(content) ==
    LET sources == retrieveRelevantChunks(documents, content, DefaultTopK)
    IN  /\ messages' = Append(messages, userMessage(content, now))
        /\ isLoading' = TRUE
        /\ pending' = Append(pending,
                             [query |-> content, documents |-> documents,
                              sources |-> sources, sentAt |-> now])

\* handleSubmit without the test of isLoading
HandleSubmitWhileLoading(message) ==
    /\ Len(trim(message)) > 0
    /\ Len(documents) # 0
    /\ Len(messages) + 2 <= MaxMessages
    /\ now < MaxClock
    /\ sendMessage(trim(message))
    /\ answeredFrom' = Nothing
    /\ UNCHANGED <<documents, now, form, pureVars>>

\* ChatInput: handleSubmit, which calls sendMessage.  The reply comes a second
\* or more later, so the clock has to have a later reading left.
HandleSubmit(message) ==
    /\ Len(trim(message)) > 0
    /\ ~isLoading
    /\ Len(documents) # 0
    /\ Len(messages) + 2 <= MaxMessages
    /\ now < MaxClock
    /\ sendMessage(trim(message))
    /\ answeredFrom' = Nothing
    /\ UNCHANGED <<documents, now, form, pureVars>>

\* ResponseGenerated with the retrieval made after the await, over the store
\* of that moment
ResponseGeneratedFromStore(k, pick) ==
    /\ now > pending[k].sentAt
    /\ LET sources == retrieveRelevantChunks(documents, pending[k].query, DefaultTopK)
       IN  messages' = Append(messages,
                              assistantMessage(
                                  generateResponse(pending[k].query, sources, pick),
                                  sources, now))
    /\ isLoading' = FALSE
    /\ pending' = SubSeq(pending, 1, k - 1) \o SubSeq(pending, k + 1, Len(pending))
    /\ answeredFrom' = Some(pending[k].documents)
    /\ UNCHANGED <<documents, now, form, pureVars>>

\* sendMessage after its await: the timer of generateResponse, at least a
\* second long, has fired
ResponseGenerated(k, pick) ==
    /\ now > pending[k].sentAt
    /\ messages' = Append(messages,
                          assistantMessage(
                              generateResponse(pending[k].query, pending[k].sources, pick),
                              pending[k].sources, now))
    /\ isLoading' = FALSE
    /\ pending' = SubSeq(pending, 1, k - 1) \o SubSeq(pending, k + 1, Len(pending))
    /\ answeredFrom' = Some(pending[k].documents)
    /\ UNCHANGED <<documents, now, form, pureVars>>

\* errorMessage with the text of the answer to a question without sources
errorMessageAsNoInformation(clock) ==
    [id |-> toString(clock + 1), content |-> NoInformationText, sender |-> "assistant",
     timestamp |-> clock, sources |-> Nothing]

errorMessage(clock) ==
    [id |-> toString(clock + 1), content |-> ErrorText, sender |-> "assistant",
     timestamp |-> clock, sources |-> Nothing]

\* ResponseFailed without the catch branch: finally alone
ResponseFailedSilently(k) ==
    /\ isLoading' = FALSE
    /\ pending' = SubSeq(pending, 1, k - 1) \o SubSeq(pending, k + 1, Len(pending))
    /\ answeredFrom' = Some(pending[k].documents)
    /\ UNCHANGED <<documents, messages, now, form, pureVars>>

\* sendMessage when what it awaits is rejected: the catch branch, then finally
ResponseFailed(k) ==
    /\ messages' = Append(messages, errorMessage(now))
    /\ isLoading' = FALSE
    /\ pending' = SubSeq(pending, 1, k - 1) \o SubSeq(pending, k + 1, Len(pending))
    /\ answeredFrom' = Some(pending[k].documents)
    /\ UNCHANGED <<documents, now, form, pureVars>>

Next ==
    \/ Tick
    \/ \E title \in FormTitles, content \in FormContents : FileLoaded(title, content)
    \/ CancelUpload
    \/ HandleUpload
    \/ \E d \in 1..Len(documents) : DeleteClicked(d)
    \/ \E message \in ChatTexts : HandleSubmit(message)
    \/ \E k \in 1..Len(pending), pick \in 1..Len(ResponseTexts) : ResponseGenerated(k, pick)
    \/ \E k \in 1..Len(pending) : ResponseFailed(k)

Spec == Init /\ [][Next]_vars

\* What sendMessage awaits is settled in the end: the timer of
\* generateResponse fires, or the promise is rejected.
Settled ==
    \/ \E k \in 1..Len(pending), pick \in 1..Len(ResponseTexts) : ResponseGenerated(k, pick)
    \/ \E k \in 1..Len(pending) : ResponseFailed(k)

SpecLive == Spec /\ WF_vars(Settled)

----------------------------------------------------------------------------
(* Properties of calculateSimilarity (SpecSim).                            *)

ScoresComputed == {k \in {"text", "query"} : simOut[k] # Nothing}

\* C1: every score calculateSimilarity returns is a number in [0,1], never
\* NaN, also when neither argument has a token longer than 2 characters.
C1_ScoreInUnitInterval ==
    \A k \in ScoresComputed :
        LET x == simOut[k][1]
        IN  ~IsNaN(x) /\ LessEq(Zero, x) /\ LessEq(x, One)

\* the adjacent two-word sequences of s, overlapping ones included
AdjacentPairs(s) ==
    LET starts == wordStarts(s)
    IN  {SubSeq(s, starts[k], wordEnd(s, starts[k + 1])) :
            k \in {j \in 1..(Len(starts) - 1) :
                      \A i \in (wordEnd(s, starts[j]) + 1)..(starts[j + 1] - 1) :
                          IsWhiteSpace(s[i])}}

SharesNothing(q, t) ==
    /\ Range(wordsOf(q)) \cap Range(wordsOf(t)) = {}
    /\ \A b \in AdjacentPairs(toLowerCase(q)) : ~includes(toLowerCase(t), b)

\* C10: score(q, q) >= score(q, t) for every t that shares no token and no
\* bigram with q, whatever q is.
C10_SelfScoreDominates ==
    (ScoresComputed = {"text", "query"} /\ SharesNothing(simIn.query, simIn.text))
        => LessEq(simOut.text[1], simOut.query[1])

----------------------------------------------------------------------------
(* Properties of chunkText (SpecChunk).                                    *)

ChunkDone == chunkOut # Nothing

Chunks == chunkOut[1]

NoSentenceIn(text) == \A i \in 1..Len(text) : IsSentenceEnd(text[i]) \/ IsWhiteSpace(text[i])

\* C8: for non-empty text chunkText returns at least one chunk and only
\* non-empty chunks; text without any sentence comes back as the one chunk
\* that is the whole text.
C8_ChunksNonEmpty ==
    (ChunkDone /\ Len(chunkIn.text) > 0) =>
        /\ Len(Chunks) >= 1
        /\ \A i \in 1..Len(Chunks) : Len(Chunks[i]) > 0
        /\ NoSentenceIn(chunkIn.text) => Chunks = <<chunkIn.text>>

C8_Witness ==
    /\ ChunkDone
    /\ Len(chunkIn.text) > 1
    /\ NoSentenceIn(chunkIn.text)
    /\ \E i \in 1..Len(chunkIn.text) : IsSentenceEnd(chunkIn.text[i])
    /\ Chunks = <<chunkIn.text>>

\* the sentence candidates of text: the maximal runs without '.', '!', '?'
\* that are not blank, as pairs of their first and last position
SentenceCandidates(text) ==
    {r \in (1..Len(text)) \X (1..Len(text)) :
        /\ r[1] <= r[2]
        /\ \A i \in r[1]..r[2] : ~IsSentenceEnd(text[i])
        /\ r[1] = 1 \/ IsSentenceEnd(text[r[1] - 1])
        /\ r[2] = Len(text) \/ IsSentenceEnd(text[r[2] + 1])
        /\ \E i \in r[1]..r[2] : ~IsWhiteSpace(text[i])}

\* every sentence candidate is, up to the whitespace around it, inside one chunk
SentencesWhole ==
    \A r \in SentenceCandidates(chunkIn.text) :
        \E i \in 1..Len(Chunks) : includes(Chunks[i], trim(SubSeq(chunkIn.text, r[1], r[2])))

OneLongSentence ==
    /\ \A i \in 1..Len(chunkIn.text) : ~IsSentenceEnd(chunkIn.text[i])
    /\ \E i \in 1..Len(chunkIn.text) : ~IsWhiteSpace(chunkIn.text[i])
    /\ Len(chunkIn.text) > chunkIn.chunkSize

\* C9 as stated: no sentence is split, and one sentence longer than chunkSize
\* gives exactly one chunk, which is longer than chunkSize.
C9_AsStated ==
    ChunkDone =>
        /\ SentencesWhole
        /\ OneLongSentence => (Len(Chunks) = 1 /\ Len(Chunks[1]) > chunkIn.chunkSize)

\* C9 amended: no sentence is split, and one sentence longer than chunkSize
\* gives exactly one chunk, the trimmed input, which is longer than chunkSize
\* when the input is longer than chunkSize without the whitespace around it.
C9_SentencesNeverSplit ==
    ChunkDone =>
        /\ SentencesWhole
        /\ OneLongSentence =>
              /\ Chunks = <<trim(chunkIn.text)>>
              /\ Len(trim(chunkIn.text)) > chunkIn.chunkSize
                    => Len(Chunks[1]) > chunkIn.chunkSize

C9_Witness ==
    /\ ChunkDone
    /\ Cardinality(SentenceCandidates(chunkIn.text)) >= 3
    /\ Len(Chunks) >= 2
    /\ \E r \in SentenceCandidates(chunkIn.text) : r[2] - r[1] + 1 > chunkIn.chunkSize

----------------------------------------------------------------------------
(* Properties of retrieveRelevantChunks (SpecRetrieve).                    *)

Retrieved == retrieved # Nothing

Sources == retrieved[1].sources

\* the chunks of the store by position: document, then chunk
ChunkPositions ==
    UNION {{<<d, c>> : c \in 1..Len(documents[d].chunks)} : d \in 1..Len(documents)}

\* the source a chunk of the store makes for a query
SourceAt(p, query) ==
    [title     |-> documents[p[1]].title,
     content   |-> documents[p[1]].chunks[p[2]],
     relevance |-> calculateSimilarity(query, documents[p[1]].chunks[p[2]])]

AboveThreshold(query) ==
    {p \in ChunkPositions : Greater(SourceAt(p, query).relevance, Threshold)}

Count(sources, source) == Cardinality({i \in DOMAIN sources : sources[i] = source})

CatPhrase == <<"c","a","t"," ","s","a","t"," ","o","n"," ","t","h","e"," ","m","a","t">>

DogPhrase == <<"d","o","g"," ","r","a","n"," ","f","a","s","t">>

ScenarioDocs == {d \in 1..Len(documents) : documents[d].content = ScenarioDocument}

\* C2 as stated: in the scenario document, the query scores a chunk that
\* contains "cat sat on the mat" strictly higher than one that contains
\* "dog ran fast".
C2_AsStated ==
    \A d \in ScenarioDocs :
        \A c1, c2 \in 1..Len(documents[d].chunks) :
            (includes(documents[d].chunks[c1], CatPhrase)
                /\ includes(documents[d].chunks[c2], DogPhrase))
            => Greater(SourceAt(<<d, c1>>, ScenarioQuery).relevance,
                       SourceAt(<<d, c2>>, ScenarioQuery).relevance)

\* C2 amended: the scenario document is one chunk, which contains both
\* phrases; the query scores it 0.5, and it is returned with that relevance.
C2_ScenarioIsOneChunk ==
    \A d \in ScenarioDocs :
        /\ Len(documents[d].chunks) = 1
        /\ includes(documents[d].chunks[1], CatPhrase)
        /\ includes(documents[d].chunks[1], DogPhrase)
        /\ SameNumber(SourceAt(<<d, 1>>, ScenarioQuery).relevance, Frac(1, 2))
        /\ (Retrieved /\ retrieved[1].query = ScenarioQuery) =>
              \A i \in 1..Len(Sources) :
                  Sources[i].content = documents[d].chunks[1]
                      => SameNumber(Sources[i].relevance, Frac(1, 2))

C2_Witness ==
    /\ Retrieved
    /\ retrieved[1].query = ScenarioQuery
    /\ \E d \in ScenarioDocs, i \in 1..Len(Sources) :
          /\ Sources[i].content = documents[d].chunks[1]
          /\ Sources[i].title = documents[d].title

C6_SortedByRelevance ==
    Retrieved =>
        \A i \in 1..(Len(Sources) - 1) :
            LessEq(Sources[i + 1].relevance, Sources[i].relevance)

C6_Witness ==
    /\ Retrieved
    /\ Len(Sources) >= 2
    /\ Len(documents) = 2
    /\ Greater(Sources[1].relevance, Sources[2].relevance)
    /\ documents[1].title # documents[2].title
    /\ Sources[1].title = documents[2].title
    /\ Sources[2].title = documents[1].title

\* C7: the result is the topK best chunks of the store that score above 0.1:
\* each source is such a chunk with the title of its document, as many are
\* returned as topK and the store allow, and no chunk that is left out scores
\* higher than a returned one.
C7_TopKOfAllChunks ==
    Retrieved =>
        LET q      == retrieved[1].query
            above  == AboveThreshold(q)
            \* the sources the chunks above the threshold make, by position
            scored == [p \in above |-> SourceAt(p, q)]
            stored == {<<p, scored[p]>> : p \in above}
            left   == {e \in stored :
                          Count(Sources, e[2]) < Cardinality({f \in stored : f[2] = e[2]})}
        IN  /\ Len(Sources) = IF retrieved[1].topK < Cardinality(above)
                              THEN retrieved[1].topK ELSE Cardinality(above)
            /\ \A i \in 1..Len(Sources) :
                  Count(Sources, Sources[i])
                      <= Cardinality({f \in stored : f[2] = Sources[i]})
            /\ \A e \in left : \A i \in 1..Len(Sources) :
                  LessEq(e[2].relevance, Sources[i].relevance)

C7_Witness ==
    /\ Retrieved
    /\ Len(Sources) = retrieved[1].topK
    /\ Len(Sources) >= 1
    /\ Cardinality(AboveThreshold(retrieved[1].query)) > Len(Sources)
    /\ \E d \in 1..Len(documents) : Len(documents[d].chunks) >= 2
    /\ \E d, e \in 1..Len(documents) : documents[d].title # documents[e].title

----------------------------------------------------------------------------
(* Properties of the application (Spec).                                   *)

\* C3: while a question is in flight, from the call of sendMessage until
\* isLoading is false again, the store is not changed.
C3_NoMutationInFlight == [][isLoading => documents' = documents]_vars

\* C4: the ids of the documents in the store are pairwise distinct.
C4_IdsDistinct ==
    \A i, j \in 1..Len(documents) : i # j => documents[i].id # documents[j].id

----------------------------------------------------------------------------
(* Properties of deleteDocument (SpecStore).                               *)

HasId(docs, id) == \E i \in 1..Len(docs) : docs[i].id = id

\* C11: a deleteDocument call with an id that no document of the store has
\* leaves the store as it was, and a second call with the same id leaves the
\* store as the first call left it.
C11_DeleteUnknownIsNoOp ==
    /\ \A i \in 1..Len(deleted) :
           ~HasId(deleted[i].before, deleted[i].id) => deleted[i].after = deleted[i].before
    /\ \A i \in 1..(Len(deleted) - 1) :
           deleted[i + 1].id = deleted[i].id => deleted[i + 1].after = deleted[i].after

C11_Witness ==
    /\ Len(deleted) = 2
    /\ deleted[1].id = deleted[2].id
    /\ ~HasId(deleted[1].before, deleted[1].id)
    /\ Len(deleted[1].before) = 2
    /\ documents = deleted[1].before

----------------------------------------------------------------------------
(* Properties of sendMessage (Spec).                                       *)

Last(seq) == seq[Len(seq)]

IsErrorMessage(m) == m.sender = "assistant" /\ m.content = ErrorText

\* the sources that retrieval gives the last question over the store `docs`
SourcesOver(docs) ==
    retrieveRelevantChunks(docs, messages[Len(messages) - 1].content, DefaultTopK)

\* C12: a failure of the generation appends exactly one assistant message,
\* the error message, leaves the store as it is and sets isLoading to false;
\* the error message is not the text that answers a question without sources.
C12_FailureIsReported ==
    /\ [](\A i \in 1..Len(messages) :
             IsErrorMessage(messages[i]) =>
                 /\ i > 1
                 /\ messages[i - 1].sender = "user"
                 /\ messages[i].content # NoInformationText
                 /\ i = Len(messages) => ~isLoading)
    /\ [][\A k \in 1..Len(pending) :
             ResponseFailed(k) =>
                 /\ Len(messages') = Len(messages) + 1
                 /\ SubSeq(messages', 1, Len(messages)) = messages
                 /\ Last(messages').sender = "assistant"
                 /\ Last(messages').content # NoInformationText
                 /\ Last(messages').sources = Nothing
                 /\ documents' = documents
                 /\ isLoading' = FALSE]_vars

C12_Witness ==
    /\ Len(messages) >= 2
    /\ IsErrorMessage(Last(messages))
    /\ ~isLoading
    /\ answeredFrom # Nothing
    /\ Len(answeredFrom[1]) > 0
    /\ SourcesOver(answeredFrom[1]) = <<>>

AttachedSources(m) == IF m.sources = Nothing THEN <<>> ELSE m.sources[1]

IsAnswer(m) == m.sender = "assistant" /\ m.content # ErrorText

JustAnswered ==
    /\ answeredFrom # Nothing
    /\ Len(messages) >= 2
    /\ IsAnswer(Last(messages))

\* C13: the sources of an answer are the result of retrieval over the store
\* as it was when sendMessage was called, whatever was added or deleted while
\* the answer was generated.
C13_SourcesFromStoreAtCall ==
    JustAnswered => AttachedSources(Last(messages)) = SourcesOver(answeredFrom[1])

C13_Witness ==
    /\ JustAnswered
    /\ answeredFrom[1] # documents
    /\ AttachedSources(Last(messages)) # <<>>
    /\ AttachedSources(Last(messages)) # SourcesOver(documents)

----------------------------------------------------------------------------
(* Properties of the flush of chunkText (SpecChunk).                       *)

InitialBuffer == [chunks |-> <<>>, currentChunk |-> <<>>]

\* the buffer the loop holds when it comes to sentence i
BufferBefore(i) ==
    chunkLoop(SubSeq(sentencesOf(chunkIn.text), 1, i - 1), 1, InitialBuffer,
              chunkIn.chunkSize, chunkIn.overlap).currentChunk

\* the sentences at which the loop flushes the buffer
Flushes ==
    {i \in 1..Len(sentencesOf(chunkIn.text)) :
        /\ Len(BufferBefore(i)) + Len(sentencesOf(chunkIn.text)[i]) > chunkIn.chunkSize
        /\ Len(BufferBefore(i)) > 0}

\* the trailing floor(overlap / 10) words of the buffer, all of them when it
\* has no more, then the sentence
TrailingWordsThenSentence(buffer, overlap, sentence) ==
    LET words == splitChar(buffer, [i \in 1..Len(buffer) |-> buffer[i] = " "])
        n     == overlap \div 10
        kept  == IF n >= Len(words) THEN words
                 ELSE SubSeq(words, Len(words) - n + 1, Len(words))
    IN  join(kept, <<" ">>) \o <<" ">> \o sentence

\* C14: at every flush the new buffer is the trailing floor(overlap / 10)
\* words of the flushed buffer followed by the new sentence, so that with an
\* overlap below 10 no word of the flushed buffer is carried over.
C14_SeedIsTrailingWords ==
    (ChunkDone /\ chunkIn.overlap >= 0) =>
        \A i \in Flushes :
            overlapSeed(BufferBefore(i), chunkIn.overlap, sentencesOf(chunkIn.text)[i])
                = TrailingWordsThenSentence(BufferBefore(i), chunkIn.overlap,
                                            sentencesOf(chunkIn.text)[i])

----------------------------------------------------------------------------
(* Properties of the phrase boost (SpecPhrase).                            *)

\* what the score simOut[k] was computed against
ScoredAgainst(k) == IF k = "text" THEN simIn.text ELSE simIn.query

\* the places of the lowercased query where two words stand side by side,
\* and whose two words are a substring of the lowercased text
PairsFound(query, text) ==
    LET q      == toLowerCase(query)
        starts == wordStarts(q)
    IN  {j \in 1..(Len(starts) - 1) :
            /\ \A i \in (wordEnd(q, starts[j]) + 1)..(starts[j + 1] - 1) : IsWhiteSpace(q[i])
            /\ includes(toLowerCase(text), SubSeq(q, starts[j], wordEnd(q, starts[j + 1])))}

JaccardOf(query, text) ==
    LET querySet == Range(wordsOf(query))
        textSet  == Range(wordsOf(text))
    IN  divide(Cardinality(querySet \cap textSet), Cardinality(querySet \cup textSet))

\* C15: the score is min(jaccard + 0.3 * n, 1), n being the number of
\* adjacent word pairs of the lowercased query, every pair counted, that are
\* substrings of the lowercased text.
C15_BoostCountsEveryPair ==
    \A k \in ScoresComputed :
        LET text == ScoredAgainst(k)
            n    == Cardinality(PairsFound(simIn.query, text))
        IN  SameNumber(simOut[k][1],
                       mathMin(plus(JaccardOf(simIn.query, text),
                                    Frac(PhraseIncrement.num * n, PhraseIncrement.den)),
                               One))

----------------------------------------------------------------------------
(* The size of the chunks (SpecChunk).                                     *)

SentencesFit ==
    /\ SentenceCandidates(chunkIn.text) # {}
    /\ \A r \in SentenceCandidates(chunkIn.text) : r[2] - r[1] + 1 <= chunkIn.chunkSize

\* C16: when every sentence of the text is at most chunkSize characters long,
\* so is every chunk.
C16_ChunksWithinChunkSize ==
    (ChunkDone /\ SentencesFit) =>
        \A i \in 1..Len(Chunks) : Len(Chunks[i]) <= chunkIn.chunkSize

----------------------------------------------------------------------------
(* The order of the sources (SpecRetrieve).                                *)

\* the chunks of the store in the order of the store: by document, then by
\* place in the document
StoreOrder ==
    LET stride == Cardinality(ChunkPositions) + 1
        keys   == SortedSeq({p[1] * stride + p[2] : p \in ChunkPositions})
    IN  AsSeq([i \in 1..Len(keys) |-> <<keys[i] \div stride, keys[i] % stride>>], Len(keys))

\* C17: the result is a function of the store and the query, with ties
\* decided by the store order: the i-th source is the chunk above the
\* threshold that has exactly i - 1 such chunks ahead of it, those of
\* higher relevance and those of equal relevance stored before it.
C17_StableTieBreak ==
    Retrieved =>
        LET q      == retrieved[1].query
            order  == StoreOrder
            scored == AsSeq([i \in 1..Len(order) |-> SourceAt(order[i], q)], Len(order))
            above  == {i \in 1..Len(order) : Greater(scored[i].relevance, Threshold)}
            ahead(i) ==
                {j \in above :
                    \/ Greater(scored[j].relevance, scored[i].relevance)
                    \/ /\ SameNumber(scored[j].relevance, scored[i].relevance)
                       /\ j < i}
        IN  /\ Len(Sources) = IF retrieved[1].topK < Cardinality(above)
                              THEN retrieved[1].topK ELSE Cardinality(above)
            /\ \A i \in above :
                  Cardinality(ahead(i)) < Len(Sources)
                      => Sources[Cardinality(ahead(i)) + 1] = scored[i]

\* two documents of the same content: their chunks tie, and the cut keeps
\* the chunk of the first
C17_Witness ==
    /\ Retrieved
    /\ retrieved[1].topK = 1
    /\ Len(documents) = 2
    /\ documents[1].content = documents[2].content
    /\ documents[1].title # documents[2].title
    /\ Len(documents[1].chunks) = 1
    /\ Len(Sources) = 1
    /\ Sources[1].title = documents[1].title

----------------------------------------------------------------------------
(* ChatInput and sendMessage (Spec).                                       *)

\* C18: handleSubmit calls sendMessage only with a trimmed message that is
\* not empty, while isLoading is false and the store has a document; so at
\* most one call is in flight, and no user message is empty.
C18_SubmitGuarded ==
    /\ [](/\ Len(pending) <= 1
          /\ isLoading <=> Len(pending) = 1
          /\ \A i \in 1..Len(messages) :
                messages[i].sender = "user" =>
                    /\ Len(messages[i].content) > 0
                    /\ trim(messages[i].content) = messages[i].content)
    /\ [][\A message \in ChatTexts :
             HandleSubmit(message) =>
                 /\ Len(trim(message)) > 0
                 /\ ~isLoading
                 /\ Len(documents) >= 1
                 /\ Len(pending) = 0
                 /\ Last(messages').content = trim(message)]_vars

C18_Witness ==
    /\ isLoading
    /\ Len(pending) = 1
    /\ Len(messages) >= 3
    /\ Last(messages).sender = "user"
    /\ Last(messages).content = <<"c","a","t"," ","s","a","t">>

\* C19: sendMessage appends the user's message; when the generation returns
\* or fails, one assistant message follows it and isLoading is false again;
\* messages are only ever appended.
C19_EveryQuestionIsAnswered ==
    /\ [][\/ messages' = messages
          \/ /\ Len(messages') = Len(messages) + 1
             /\ SubSeq(messages', 1, Len(messages)) = messages]_vars
    /\ [][\A message \in ChatTexts :
             HandleSubmit(message) => messages' = Append(messages, userMessage(trim(message), now))]_vars
    /\ [][(isLoading /\ ~isLoading') =>
             /\ Len(messages') = Len(messages) + 1
             /\ Last(messages').sender = "assistant"
             /\ Last(messages).sender = "user"]_vars
    /\ [][(isLoading /\ isLoading') => messages' = messages]_vars
    /\ [](/\ isLoading <=> Len(messages) % 2 = 1
          /\ \A i \in 1..Len(messages) :
                messages[i].sender = IF i % 2 = 1 THEN "user" ELSE "assistant")
    /\ isLoading ~> ~isLoading

C19_Witness ==
    /\ ~isLoading
    /\ Len(messages) = 4
    /\ IsErrorMessage(messages[2])
    /\ IsAnswer(messages[4])
    /\ messages[1].content # messages[3].content

====
